---- MODULE Spec2Model ----
(***************************************************************************)
(* The sandboxed LibRaw facade (contrib/libraw/utils/utils_libraw.cc), the *)
(* raw2text example driver with its own copy of the facade                 *)
(* (contrib/libraw/example/main.cc), the helper subtract_bl, and the test   *)
(* bodies of the sandboxed uriparser (contrib/uriparser/test).             *)
(*                                                                         *)
(* The isolated context, the remote call channel and the wrapped library   *)
(* are the environment: a remote call either reaches the library or fails  *)
(* at the transport because the context is down; a context that went down  *)
(* stays down (nothing in the sources restarts it).                        *)
(***************************************************************************)
EXTENDS Integers, Sequences, FiniteSets, TLC

VARIABLES
    sbx,                  \* isolated context: "off" | "up" | "down" | "torn"
    lib,                  \* wrapped library: [ptr, data, closed]
    file,                 \* the input file the library reads
    issued,               \* remote interactions issued so far, by name
    variant,              \* which facade class: "utils" | "example"
    life,                 \* facade object: "none" | "live" | "destroyed"
    init_status_,         \* LibRaw::init_status_
    sapi_libraw_data_t_,  \* LibRaw::sapi_libraw_data_t_: [remote, data]
    size_,                \* LibRaw::size_ (utils variant)
    color,                \* LibRaw::color (example variant)
    ret,                  \* what the last facade operation returned
    hist,                 \* facts about the session's past that claims refer to
    nops,                 \* number of facade operations the caller has made
    argv,                 \* the driver's command line: ac and atoi of av[2..6]
    loc,                  \* main: colstart, rowstart, channel, width, height
    pc,                   \* the driver's position in main
    exit_code,            \* the driver's exit status, <<>> while running
    row,                  \* main: row of the dump loop
    c,                    \* main: c of the color table loop
    rcolors,              \* main: unsigned rcolors[48]
    dumped,               \* pixel rows printed so far, each a sequence of cells
    run,                  \* facts about the run: [sandbox, why] (why it ended)
    bl,                   \* subtract_bl: [state, val, bl, res]
    tv,                   \* uriparser test: the row of TestData (GetParam())
    test,                 \* uriparser test: which TEST_P body runs
    upc,                  \* uriparser test: position in the test
    uris,                 \* uri, base_uri, newuri: [remote, data] each
    mem,                  \* uriparser context: remote memory of each record
    scope,                \* locals of the test body with a destructor, in
                          \* declaration order
    calls,                \* remote interactions the test issued, in order
    walk,                 \* the handle and progress of a list walk
    seen,                 \* what the test body observed: [hosttext, ipstr]
    fatal                 \* whether the test has recorded a fatal failure

lrvars == <<sbx, lib, issued, life, init_status_, sapi_libraw_data_t_, size_,
            color, ret, hist>>
drvvars == <<argv, loc, pc, exit_code, row, c, rcolors, dumped, run>>
utvars == <<tv, test, upc, uris, mem, scope, calls, walk, seen, fatal>>
vars == <<sbx, lib, file, issued, variant, life, init_status_,
          sapi_libraw_data_t_, size_, color, ret, hist, nops, argv, loc, pc,
          exit_code, row, c, rcolors, dumped, run, bl, tv, test, upc, uris,
          mem, scope, calls, walk, seen, fatal>>

(***************************************************************************)
(* Bounds of the model.                                                    *)
(***************************************************************************)
\* Facade operations an arbitrary caller makes on one session.
MaxOps == 4

(***************************************************************************)
(* Program constants.                                                      *)
(***************************************************************************)
LIBRAW_SUCCESS == 0
LIBRAW_OUT_OF_ORDER_CALL == -4
NoFilters == 6
RColors == 48
MinArgs == 4
DefaultWidth == 16
DefaultHeight == 4
MaxChannel == 3
EXIT_SUCCESS == 0
EXIT_FAILURE == 1
UsageExit == 1

(***************************************************************************)
(* 32-bit unsigned values, kept as two 16-bit halves [hi, lo].             *)
(***************************************************************************)
Half == 2^16

U32 == [hi : 0..(Half - 1), lo : 0..(Half - 1)]

\* The unsigned value of a number in 0 .. 2^31 - 1.
U32Of(n) == [hi |-> n \div Half, lo |-> n % Half]

\* 2^32 - p, modulo 2^32.
U32Neg(p) ==
    IF p.lo = 0
    THEN [hi |-> (Half - p.hi) % Half, lo |-> 0]
    ELSE [hi |-> (Half - 1) - p.hi, lo |-> Half - p.lo]

\* (unsigned)x for a 32-bit int x.
ToUnsigned(x) == IF x >= 0 THEN U32Of(x) ELSE U32Neg(U32Of(0 - x))

\* a > b
U32Gt(a, b) == a.hi > b.hi \/ (a.hi = b.hi /\ a.lo > b.lo)

\* a - b modulo 2^32
U32Sub(a, b) ==
    LET borrow == IF a.lo < b.lo THEN 1 ELSE 0
    IN  [hi |-> (a.hi - b.hi - borrow) % Half, lo |-> (a.lo - b.lo) % Half]

\* a + b modulo 2^32, and whether the sum passed 2^32
U32Add(a, b) ==
    LET lo == a.lo + b.lo
        hi == a.hi + b.hi + (lo \div Half)
    IN  [sum |-> [hi |-> hi % Half, lo |-> lo % Half], carry |-> hi >= Half]

\* The product of two numbers below 2^16, which is below 2^32.
Product(h, w) ==
    LET q == (h \div 256) * w
        s == (h % 256) * w
        lo == ((q % 256) * 256) + s
    IN  [hi |-> (q \div 256) + (lo \div Half), lo |-> lo % Half]

\* Whether 32 bits read as an int are a negative number.
Negative(n) == n.hi >= Half \div 2

\* The largest int.
IntMax == [hi |-> (Half \div 2) - 1, lo |-> Half - 1]

\* h * w for two unsigned shorts: both are promoted to int, and a product
\* above the largest int is a signed overflow, whose result is whatever the
\* build makes of it (the low 32 bits of the product, or anything else).
IntMul(h, w) ==
    IF Negative(Product(h, w))
    THEN {Product(h, w), U32Of(0), IntMax}
    ELSE {Product(h, w)}

(***************************************************************************)
(* absl::Status.                                                           *)
(***************************************************************************)
OkStatus == [code |-> "Ok", msg |-> ""]

UnavailableError(m) == [code |-> "Unavailable", msg |-> m]

IsOk(s) == s.code = "Ok"

\* The failure of a remote call or transfer whose context is down.
TransportError == UnavailableError("Sandbox not active")

\* The failure of a transfer on a handle with no remote address.
NullRemoteError == [code |-> "FailedPrecondition", msg |-> "remote is nullptr"]

\* std::length_error out of the constructor of std::vector
LengthError == [code |-> "length_error", msg |-> "vector"]

Digit == <<"0", "1", "2", "3", "4", "5", "6", "7", "8", "9">>

RECURSIVE NatToString(_)
NatToString(n) ==
    IF n < 10 THEN Digit[n + 1]
    ELSE NatToString(n \div 10) \o Digit[(n % 10) + 1]

\* std::to_string(int)
to_string(n) == IF n < 0 THEN "-" \o NatToString(0 - n) ELSE NatToString(n)

(***************************************************************************)
(* The wrapped library, as far as the facade and the driver observe it.    *)
(* Addresses in the context are names.                                     *)
(***************************************************************************)
NullPtr == "nullptr"
LibDataAddr == "libraw_data_t"
ImageAddr == "image"

\* The local staging buffer before anything was transferred into it.
BlankData ==
    [progress |-> "blank", raw_height |-> 0, raw_width |-> 0, colors |-> 0,
     raw_image |-> NullPtr, color4_image |-> NullPtr, color3_image |-> NullPtr]

\* libraw_init: the record of a fresh decoder.
InitData == [BlankData EXCEPT !.progress = "init"]

Layouts == {"raw", "color4", "color3", "none"}

GoodFiles ==
    { [raw_height |-> 2, raw_width |-> 2, colors |-> k, layout |-> l,
       openCode |-> 0, unpackCode |-> 0] : k \in {1, 3}, l \in Layouts }

BadUnpackFiles ==
    { [raw_height |-> 2, raw_width |-> 2, colors |-> k, layout |-> "none",
       openCode |-> 0, unpackCode |-> -100009] : k \in {1, 3} }

BadOpenFiles ==
    { [raw_height |-> 0, raw_width |-> 0, colors |-> 0, layout |-> "none",
       openCode |-> -2, unpackCode |-> LIBRAW_OUT_OF_ORDER_CALL] }

\* Files of the largest dimensions: 46340 * 46340 is the largest square below
\* 2^31, 46341 * 46341 the smallest above it.
LargeFiles ==
    { [raw_height |-> n, raw_width |-> n, colors |-> 1, layout |-> "raw",
       openCode |-> 0, unpackCode |-> 0] : n \in {46340, 46341, 65535} }

Files == GoodFiles \cup BadUnpackFiles \cup BadOpenFiles \cup LargeFiles

\* libraw_open_file on record d: the return code and the record afterwards.
LibOpenFile(d) ==
    IF file.openCode = LIBRAW_SUCCESS
    THEN [code |-> LIBRAW_SUCCESS,
          data |-> [InitData EXCEPT !.progress = "opened",
                                    !.raw_height = file.raw_height,
                                    !.raw_width = file.raw_width,
                                    !.colors = file.colors]]
    ELSE [code |-> file.openCode, data |-> InitData]

\* libraw_unpack on record d.
LibUnpack(d) ==
    IF d.progress \notin {"opened", "unpacked"}
    THEN [code |-> LIBRAW_OUT_OF_ORDER_CALL, data |-> d]
    ELSE IF file.unpackCode # LIBRAW_SUCCESS
    THEN [code |-> file.unpackCode, data |-> d]
    ELSE [code |-> LIBRAW_SUCCESS,
          data |-> [d EXCEPT
                      !.progress = "unpacked",
                      !.raw_image = IF file.layout = "raw" THEN ImageAddr ELSE NullPtr,
                      !.color4_image = IF file.layout = "color4" THEN ImageAddr ELSE NullPtr,
                      !.color3_image = IF file.layout = "color3" THEN ImageAddr ELSE NullPtr]]

\* libraw_COLOR on record d: the channel of the Bayer cell, or 6 without filters.
LibCOLOR(d, r, k) ==
    IF d.colors <= 1 THEN NoFilters
    ELSE <<0, 1, 3, 2>>[((r % 2) * 2) + (k % 2) + 1]

(***************************************************************************)
(* The remote call channel.                                                *)
(***************************************************************************)
CallNames ==
    {"libraw_init", "libraw_open_file", "libraw_unpack", "libraw_COLOR",
     "libraw_close", "TransferFromSandboxee"}

Bump(f, name) == [f EXCEPT ![name] = @ + 1]

\* Whether a call made now reaches the context, given that the context may go
\* down as the call is made.
Reaches(crash) == sbx = "up" /\ ~crash

SbxAfter(crash) == IF sbx = "up" /\ crash THEN "down" ELSE sbx

NoCall == [made |-> FALSE, ok |-> FALSE, code |-> 0]
FailedCall == [made |-> TRUE, ok |-> FALSE, code |-> 0]
DoneCall(code) == [made |-> TRUE, ok |-> TRUE, code |-> code]

\* What a facade operation hands back: a Status, a StatusOr (value present
\* when ok) or, for the example's COLOR, a bare int.
Returned(op, kind, status, value, call) ==
    [op |-> op, kind |-> kind, status |-> status, value |-> value, call |-> call]

NoRet == Returned("none", "status", OkStatus, <<>>, NoCall)

(***************************************************************************)
(* The facade.                                                             *)
(***************************************************************************)
Variants == {"utils", "example"}

\* An int member nobody has assigned holds whatever the storage held.
Indeterminate == {0, 2, 7}

\* CheckIsInit answering OK whatever the initialization did
CheckIsInit_AlwaysOk == OkStatus

\* LibRaw::CheckIsInit
CheckIsInit == init_status_

\* the test written as error_code > LIBRAW_SUCCESS
LibraryFailed_PositiveOnly(error_code) == error_code > LIBRAW_SUCCESS

\* if (error_code != LIBRAW_SUCCESS)
LibraryFailed(error_code) == error_code # LIBRAW_SUCCESS

\* LibRaw::InitLibRaw: the status it returns and the handle afterwards.
\* ptr is what libraw_init returns when it is reached; crash1 and crash2 say
\* whether the context goes down at the call and at the transfer.
InitLibRaw(ptr, crash1, crash2) ==
    IF ~Reaches(crash1)
    THEN [status |-> TransportError, handle |-> sapi_libraw_data_t_,
          lib |-> lib, sbx |-> SbxAfter(crash1),
          issued |-> Bump(issued, "libraw_init")]
    ELSE LET lib1 == IF ptr = NullPtr THEN lib
                     ELSE [ptr |-> ptr, data |-> InitData, closed |-> FALSE]
             h1 == [sapi_libraw_data_t_ EXCEPT !.remote = ptr]
             i1 == Bump(Bump(issued, "libraw_init"), "TransferFromSandboxee")
         IN  IF ptr = NullPtr
             THEN [status |-> NullRemoteError, handle |-> h1, lib |-> lib1,
                   sbx |-> sbx, issued |-> i1]
             ELSE IF crash2
             THEN [status |-> TransportError, handle |-> h1, lib |-> lib1,
                   sbx |-> "down", issued |-> i1]
             ELSE [status |-> OkStatus,
                   handle |-> [h1 EXCEPT !.data = lib1.data],
                   lib |-> lib1, sbx |-> sbx, issued |-> i1]

\* The constructor without init_status_ = InitLibRaw(): init_status_ stays the
\* default absl::Status, which is OK
Ctor_StatusDropped(ptr, crash1, crash2) ==
    /\ life = "none"
    /\ LET r == InitLibRaw(ptr, crash1, crash2)
       IN  /\ init_status_' = OkStatus
           /\ sapi_libraw_data_t_' = r.handle
           /\ lib' = r.lib
           /\ sbx' = r.sbx
           /\ issued' = r.issued
           /\ hist' = [hist EXCEPT
                         !.inited = (ptr # NullPtr /\ Reaches(crash1)),
                         !.init = IF ~Reaches(crash1) THEN "call"
                                  ELSE IF ptr = NullPtr THEN "null"
                                  ELSE IF crash2 THEN "transfer"
                                  ELSE "ok"]
    /\ life' = "live"
    /\ IF variant = "example"
       THEN \E g \in Indeterminate : color' = g
       ELSE UNCHANGED color
    /\ UNCHANGED <<size_, ret>>

\* LibRaw::LibRaw
Ctor(ptr, crash1, crash2) ==
    /\ life = "none"
    /\ LET r == InitLibRaw(ptr, crash1, crash2)
       IN  /\ init_status_' = r.status
           /\ sapi_libraw_data_t_' = r.handle
           /\ lib' = r.lib
           /\ sbx' = r.sbx
           /\ issued' = r.issued
           /\ hist' = [hist EXCEPT
                         !.inited = (ptr # NullPtr /\ Reaches(crash1)),
                         !.init = IF ~Reaches(crash1) THEN "call"
                                  ELSE IF ptr = NullPtr THEN "null"
                                  ELSE IF crash2 THEN "transfer"
                                  ELSE "ok"]
    /\ life' = "live"
    /\ IF variant = "example"
       THEN \E g \in Indeterminate : color' = g
       ELSE UNCHANGED color
    /\ UNCHANGED <<size_, ret>>

\* LibRaw::~LibRaw (the example's class declares none)
Dtor(crash) ==
    /\ life = "live"
    /\ life' = "destroyed"
    /\ IF variant = "utils" /\ sapi_libraw_data_t_.remote # NullPtr
       THEN /\ issued' = Bump(issued, "libraw_close")
            /\ sbx' = SbxAfter(crash)
            /\ lib' = IF Reaches(crash) THEN [lib EXCEPT !.closed = TRUE] ELSE lib
       ELSE UNCHANGED <<issued, sbx, lib>>
    /\ UNCHANGED <<init_status_, sapi_libraw_data_t_, size_, color, ret, hist>>

\* the handle left as it was after the call
PtrAfter_NoCopy(h, d) == h

\* PtrAfter() and the after-call half of PtrBoth(): once the call has
\* completed the remote record d is copied into the handle's local buffer.
PtrAfter(h, d) == [h EXCEPT !.data = d]

\* The message of the failure OpenFile and Unpack make of a library code.
OpenFileMessage(error_code) == to_string(error_code)

UnpackMessage(error_code) ==
    IF variant = "utils" THEN to_string(error_code) ELSE "error"

\* LibRaw::OpenFile
OpenFile(crash) ==
    /\ life = "live"
    /\ IF ~IsOk(CheckIsInit)
       THEN /\ ret' = Returned("OpenFile", "status", CheckIsInit, <<>>, NoCall)
            /\ UNCHANGED <<sbx, lib, issued, sapi_libraw_data_t_, size_, hist>>
       ELSE /\ issued' = Bump(issued, "libraw_open_file")
            /\ sbx' = SbxAfter(crash)
            /\ IF ~Reaches(crash)
               THEN /\ ret' = Returned("OpenFile", "status", TransportError, <<>>,
                                       FailedCall)
                    /\ hist' = [hist EXCEPT !.openFailed = TRUE]
                    /\ UNCHANGED <<lib, sapi_libraw_data_t_, size_>>
               ELSE LET r == LibOpenFile(lib.data)
                    IN  /\ lib' = [lib EXCEPT !.data = r.data]
                        \* PtrAfter: the record is copied back after the call
                        /\ sapi_libraw_data_t_' =
                               PtrAfter(sapi_libraw_data_t_, r.data)
                        /\ IF LibraryFailed(r.code)
                           THEN /\ ret' = Returned("OpenFile", "status",
                                               UnavailableError(OpenFileMessage(r.code)),
                                               <<>>, DoneCall(r.code))
                                /\ hist' = [hist EXCEPT !.openFailed = TRUE]
                                /\ UNCHANGED size_
                           ELSE /\ ret' = Returned("OpenFile", "status", OkStatus,
                                               <<>>, DoneCall(r.code))
                                /\ IF variant = "utils"
                                   THEN \E n \in IntMul(r.data.raw_height,
                                                        r.data.raw_width) :
                                            size_' = n
                                   ELSE UNCHANGED size_
                                /\ hist' = [hist EXCEPT !.opened = TRUE]
    /\ UNCHANGED <<life, init_status_, color>>

\* LibRaw::Unpack
Unpack(crash) ==
    /\ life = "live"
    /\ IF ~IsOk(CheckIsInit)
       THEN /\ ret' = Returned("Unpack", "status", CheckIsInit, <<>>, NoCall)
            /\ UNCHANGED <<sbx, lib, issued, sapi_libraw_data_t_, hist>>
       ELSE /\ issued' = Bump(issued, "libraw_unpack")
            /\ sbx' = SbxAfter(crash)
            /\ IF ~Reaches(crash)
               THEN /\ ret' = Returned("Unpack", "status", TransportError, <<>>,
                                       FailedCall)
                    /\ hist' = [hist EXCEPT !.unpackFailed = TRUE]
                    /\ UNCHANGED <<lib, sapi_libraw_data_t_>>
               ELSE \* utils: PtrBoth, the local record is copied in before the
                    \* call; example: PtrAfter. Both copy the record back after.
                    LET before == IF variant = "utils"
                                  THEN sapi_libraw_data_t_.data ELSE lib.data
                        r == LibUnpack(before)
                    IN  /\ lib' = [lib EXCEPT !.data = r.data]
                        /\ sapi_libraw_data_t_' =
                               PtrAfter(sapi_libraw_data_t_, r.data)
                        /\ hist' = [hist EXCEPT
                                      !.unpackNoOpen = @ \/ ~hist.opened,
                                      !.unpackFailed = @ \/ LibraryFailed(r.code)]
                        /\ IF LibraryFailed(r.code)
                           THEN ret' = Returned("Unpack", "status",
                                           UnavailableError(UnpackMessage(r.code)),
                                           <<>>, DoneCall(r.code))
                           ELSE ret' = Returned("Unpack", "status", OkStatus,
                                           <<>>, DoneCall(r.code))
    /\ UNCHANGED <<life, init_status_, size_, color>>

\* LibRaw::COLOR (utils: StatusOr<int>; example: _COLOR into the member
\* color, whose value COLOR returns whatever _COLOR's status was)
COLOR(r, k, crash) ==
    /\ life = "live"
    /\ IF ~IsOk(CheckIsInit)
       THEN /\ ret' = IF variant = "utils"
                      THEN Returned("COLOR", "statusor", CheckIsInit, <<>>, NoCall)
                      ELSE Returned("COLOR", "int", CheckIsInit, <<color>>, NoCall)
            /\ UNCHANGED <<sbx, lib, issued, color, hist>>
       ELSE /\ issued' = Bump(issued, "libraw_COLOR")
            /\ sbx' = SbxAfter(crash)
            /\ IF ~Reaches(crash)
               THEN /\ ret' = IF variant = "utils"
                              THEN Returned("COLOR", "statusor", TransportError,
                                            <<>>, FailedCall)
                              ELSE Returned("COLOR", "int", TransportError,
                                            <<color>>, FailedCall)
                    /\ UNCHANGED <<lib, color, hist>>
               ELSE \* PtrBefore: the local record is copied in before the call
                    LET d == sapi_libraw_data_t_.data
                        v == LibCOLOR(d, r, k)
                    IN  /\ lib' = [lib EXCEPT !.data = d]
                        /\ hist' = [hist EXCEPT !.colorNoOpen = @ \/ ~hist.opened]
                        /\ IF variant = "utils"
                           THEN /\ ret' = Returned("COLOR", "statusor", OkStatus,
                                               <<v>>, DoneCall(v))
                                /\ UNCHANGED color
                           ELSE /\ ret' = Returned("COLOR", "int", OkStatus,
                                               <<v>>, DoneCall(v))
                                /\ color' = v
    /\ UNCHANGED <<life, init_status_, sapi_libraw_data_t_, size_>>

\* LibRaw::RawData (utils only): a transfer of size_ elements from raw_image
RawData(crash) ==
    /\ life = "live"
    /\ variant = "utils"
    /\ IF ~IsOk(CheckIsInit)
       THEN /\ ret' = Returned("RawData", "statusor", CheckIsInit, <<>>, NoCall)
            /\ UNCHANGED <<sbx, issued, hist>>
       ELSE IF Negative(size_)
       THEN \* std::vector<uint16_t> buf(size_) of a negative size_ throws
            /\ ret' = Returned("RawData", "thrown", LengthError, <<>>, NoCall)
            /\ UNCHANGED <<sbx, issued, hist>>
       ELSE /\ issued' = Bump(issued, "TransferFromSandboxee")
            /\ IF sapi_libraw_data_t_.data.raw_image = NullPtr
               THEN /\ ret' = Returned("RawData", "statusor", NullRemoteError,
                                       <<>>, FailedCall)
                    /\ UNCHANGED <<sbx, hist>>
               ELSE /\ sbx' = SbxAfter(crash)
                    /\ hist' = [hist EXCEPT
                                  !.rawNoOpen = @ \/ (Reaches(crash) /\ ~hist.opened)]
                    /\ ret' = IF Reaches(crash)
                              THEN Returned("RawData", "statusor", OkStatus,
                                            <<size_>>, DoneCall(0))
                              ELSE Returned("RawData", "statusor", TransportError,
                                            <<>>, FailedCall)
    /\ UNCHANGED <<life, init_status_, lib, sapi_libraw_data_t_, size_, color>>

(***************************************************************************)
(* Initial values.                                                         *)
(***************************************************************************)
NoHist ==
    [inited |-> FALSE, init |-> "none", opened |-> FALSE, openFailed |-> FALSE,
     unpackFailed |-> FALSE, unpackNoOpen |-> FALSE, colorNoOpen |-> FALSE,
     rawNoOpen |-> FALSE]

NoRun == [sandbox |-> "none", why |-> "none"]

NoArgs == [ac |-> 0, a2 |-> 0, a3 |-> 0, a4 |-> 0, a5 |-> 0, a6 |-> 0]

NoLocals == [colstart |-> 0, rowstart |-> 0, channel |-> 0, width |-> 0,
             height |-> 0]

LrInit ==
    /\ lib = [ptr |-> NullPtr, data |-> BlankData, closed |-> FALSE]
    /\ issued = [n \in CallNames |-> 0]
    /\ life = "none"
    /\ init_status_ = OkStatus
    /\ sapi_libraw_data_t_ = [remote |-> NullPtr, data |-> BlankData]
    /\ size_ = U32Of(0)
    /\ color = 0
    /\ ret = NoRet
    /\ hist = NoHist

DrvIdle ==
    /\ argv = NoArgs
    /\ loc = NoLocals
    /\ pc = "idle"
    /\ exit_code = <<>>
    /\ row = 0
    /\ c = 0
    /\ rcolors = <<>>
    /\ dumped = <<>>
    /\ run = NoRun

BlIdle == bl = [state |-> "idle", val |-> U32Of(0), bl |-> 0, res |-> U32Of(0)]

\* The handles of a test body: uri, base_uri and newuri.
UriNames == {"uri", "base_uri", "newuri"}

\* The zero-filled UriUriA a sapi::v::Struct holds before any transfer.
BlankUri ==
    [hostText |-> "", ip4 |-> <<>>, ip6 |-> <<>>, pathHead |-> NullPtr,
     query |-> NullPtr]

\* parse: how ParseUri ended on the handle, kept for the properties
NoUri == [remote |-> NullPtr, data |-> BlankUri, parse |-> "none"]

\* Remote memory of one record: the block itself and the members the library
\* attached to it.
NoMem == [record |-> "none", members |-> "none", auto |-> FALSE]

NoRow ==
    [test |-> "", hosttext |-> "", hostip |-> "", path_elements |-> <<>>,
     query_elements |-> <<>>]

NoWalk ==
    [kind |-> "none", list |-> <<>>, remote |-> NullPtr, done |-> <<>>,
     i |-> 0, count |-> 0, ended |-> "no"]

NoSeen == [hosttext |-> <<>>, ipstr |-> <<>>]

UtIdle ==
    /\ tv = NoRow
    /\ test = "none"
    /\ upc = "idle"
    /\ uris = [h \in UriNames |-> NoUri]
    /\ mem = [h \in UriNames |-> NoMem]
    /\ scope = <<>>
    /\ calls = <<>>
    /\ walk = NoWalk
    /\ seen = NoSeen
    /\ fatal = FALSE

(***************************************************************************)
(* The uriparser tests: the table of TestVariant rows, and the wrapped     *)
(* library as far as the test bodies observe it.                           *)
(***************************************************************************)
\* TestData[], with the fields the modelled test bodies read.
TestData == <<
    [test |-> "http://www.example.com/",
     hosttext |-> "www.example.com", hostip |-> "",
     path_elements |-> <<>>,
     query_elements |-> <<>>],
    [test |-> "https://github.com/google/sandboxed-api/",
     hosttext |-> "github.com", hostip |-> "",
     path_elements |-> <<"google", "sandboxed-api">>,
     query_elements |-> <<>>],
    [test |-> "mailto:test@example.com",
     hosttext |-> "", hostip |-> "",
     path_elements |-> <<"test@example.com">>,
     query_elements |-> <<>>],
    [test |-> "file:///bin/bash",
     hosttext |-> "", hostip |-> "",
     path_elements |-> <<"bin", "bash">>,
     query_elements |-> <<>>],
    [test |-> "http://www.example.com/name%20with%20spaces/",
     hosttext |-> "www.example.com", hostip |-> "",
     path_elements |-> <<"name%20with%20spaces">>,
     query_elements |-> <<>>],
    [test |-> "http://abcdefg@localhost/",
     hosttext |-> "localhost", hostip |-> "",
     path_elements |-> <<>>,
     query_elements |-> <<>>],
    [test |-> "https://localhost:123/",
     hosttext |-> "localhost", hostip |-> "",
     path_elements |-> <<>>,
     query_elements |-> <<>>],
    [test |-> "http://[::1]/",
     hosttext |-> "::1", hostip |-> "::1",
     path_elements |-> <<>>,
     query_elements |-> <<>>],
    [test |-> "http://a/b/c/d;p?q",
     hosttext |-> "a", hostip |-> "",
     path_elements |-> <<"b", "c", "d;p">>,
     query_elements |-> <<<<"q", "">>>>],
    [test |-> "http://a/b/c/../d;p?q",
     hosttext |-> "a", hostip |-> "",
     path_elements |-> <<"b", "c", "..", "d;p">>,
     query_elements |-> <<<<"q", "">>>>],
    [test |-> "http://example.com/abc/def/",
     hosttext |-> "example.com", hostip |-> "",
     path_elements |-> <<"abc", "def">>,
     query_elements |-> <<>>],
    [test |-> "http://example.com/?abc",
     hosttext |-> "example.com", hostip |-> "",
     path_elements |-> <<>>,
     query_elements |-> <<<<"abc", "">>>>],
    [test |-> "http://[vA.123456]/",
     hosttext |-> "vA.123456", hostip |-> "",
     path_elements |-> <<>>,
     query_elements |-> <<>>],
    [test |-> "http://8.8.8.8/",
     hosttext |-> "8.8.8.8", hostip |-> "8.8.8.8",
     path_elements |-> <<>>,
     query_elements |-> <<>>],
    [test |-> "http://www.example.com/?abc",
     hosttext |-> "www.example.com", hostip |-> "",
     path_elements |-> <<>>,
     query_elements |-> <<<<"abc", "">>>>],
    [test |-> "https://google.com?q=asd&x=y&zxc=asd",
     hosttext |-> "google.com", hostip |-> "",
     path_elements |-> <<>>,
     query_elements |-> <<<<"q", "asd">>, <<"x", "y">>, <<"zxc", "asd">>>>],
    [test |-> "https://google.com?q=asd#newplace",
     hosttext |-> "google.com", hostip |-> "",
     path_elements |-> <<>>,
     query_elements |-> <<<<"q", "asd">>>>] >>

\* The rows whose path ends in an empty segment (the text ends in "/", or has
\* "/" right before the query).
EmptyTail ==
    {"http://www.example.com/",
     "https://github.com/google/sandboxed-api/",
     "http://www.example.com/name%20with%20spaces/",
     "http://abcdefg@localhost/",
     "https://localhost:123/",
     "http://[::1]/",
     "http://example.com/abc/def/",
     "http://example.com/?abc",
     "http://[vA.123456]/",
     "http://8.8.8.8/",
     "http://www.example.com/?abc"}

\* c_base_uri of the add-base and remove-base tests
BaseUriText == "http://www.example.com"

BaseRow ==
    [test |-> BaseUriText, hosttext |-> "www.example.com", hostip |-> "",
     path_elements |-> <<>>, query_elements |-> <<>>]

\* hostData of the parsed record: the four bytes of an IPv4 literal, the
\* eight 16-bit groups of an IPv6 literal, or neither.
LibIp4(r) == IF r.test = "http://8.8.8.8/" THEN <<8, 8, 8, 8>> ELSE <<>>

LibIp6(r) == IF r.test = "http://[::1]/" THEN <<0, 0, 0, 0, 0, 0, 0, 1>> ELSE <<>>

\* The path segments of the parsed record, as a list of nodes in remote
\* memory: the texts of the segments, in order.
LibPath(r) ==
    IF r.test \in EmptyTail THEN Append(r.path_elements, "")
    ELSE r.path_elements

\* The address of node i of a remote list, and of the node after it.
NodeAddr(kind, i) == kind \o NatToString(i)

\* the next pointer taken from one node further on
NextAddr_Skip(kind, list, i) ==
    IF i + 1 < Len(list) THEN NodeAddr(kind, i + 2) ELSE NullPtr

NextAddr(kind, list, i) ==
    IF i < Len(list) THEN NodeAddr(kind, i + 1) ELSE NullPtr

\* The node number an address stands for, 0 for an address outside the list.
NodeOf(kind, list, addr) ==
    IF \E i \in 1..Len(list) : NodeAddr(kind, i) = addr
    THEN CHOOSE i \in 1..Len(list) : NodeAddr(kind, i) = addr
    ELSE 0

\* uriParseUriA on the text of row r: the record the library fills in.
LibParseUri(r) ==
    [hostText |-> r.hosttext, ip4 |-> LibIp4(r), ip6 |-> LibIp6(r),
     pathHead |-> IF LibPath(r) = <<>> THEN NullPtr ELSE NodeAddr("seg", 1),
     query |-> IF r.query_elements = <<>> THEN NullPtr ELSE "query"]

(***************************************************************************)
(* inet_ntop, as TestHostIP uses it.                                       *)
(***************************************************************************)
HexDigit ==
    <<"0", "1", "2", "3", "4", "5", "6", "7", "8", "9", "a", "b", "c", "d",
      "e", "f">>

RECURSIVE NatToHex(_)
NatToHex(n) ==
    IF n < 16 THEN HexDigit[n + 1]
    ELSE NatToHex(n \div 16) \o HexDigit[(n % 16) + 1]

\* the four bytes with colons between them
inet_ntop4_Colons(b) ==
    NatToString(b[1]) \o ":" \o NatToString(b[2]) \o ":" \o
    NatToString(b[3]) \o ":" \o NatToString(b[4])

\* inet_ntop(AF_INET, ...): four bytes, dotted decimal
inet_ntop4(b) ==
    NatToString(b[1]) \o "." \o NatToString(b[2]) \o "." \o
    NatToString(b[3]) \o "." \o NatToString(b[4])

\* The number of zero groups of g in a row from group i on.
RECURSIVE ZeroRun(_, _)
ZeroRun(g, i) ==
    IF i > Len(g) \/ g[i] # 0 THEN 0 ELSE 1 + ZeroRun(g, i + 1)

\* The run "::" stands for: the first of the longest runs of two or more zero
\* groups, [base, len], len = 0 when there is none.
BestRun(g) ==
    LET longest == CHOOSE n \in 0..Len(g) :
                       /\ \E i \in 1..Len(g) : ZeroRun(g, i) = n
                       /\ \A i \in 1..Len(g) : ZeroRun(g, i) <= n
        base == CHOOSE i \in 1..Len(g) :
                    /\ ZeroRun(g, i) = longest
                    /\ \A j \in 1..(i - 1) : ZeroRun(g, j) < longest
    IN  IF longest < 2 THEN [base |-> 0, len |-> 0]
        ELSE [base |-> base, len |-> longest]

RECURSIVE Ntop6From(_, _, _)
Ntop6From(g, best, i) ==
    IF i > Len(g)
    THEN IF best.len > 0 /\ best.base + best.len = Len(g) + 1 THEN ":" ELSE ""
    ELSE IF best.len > 0 /\ i >= best.base /\ i < best.base + best.len
    THEN (IF i = best.base THEN ":" ELSE "") \o Ntop6From(g, best, i + 1)
    ELSE IF /\ i = 7
            /\ best.base = 1
            /\ (best.len = 6 \/ (best.len = 5 /\ g[6] = 65535))
    THEN \* an IPv4 address in the last two groups
         ":" \o inet_ntop4(<<g[7] \div 256, g[7] % 256, g[8] \div 256,
                             g[8] % 256>>)
    ELSE (IF i # 1 THEN ":" ELSE "") \o NatToHex(g[i])
         \o Ntop6From(g, best, i + 1)

\* inet_ntop(AF_INET6, ...): eight groups, hexadecimal, the longest zero run
\* shortened to "::"
inet_ntop6(g) == Ntop6From(g, BestRun(g), 1)

(***************************************************************************)
(* Spec: one facade session used by an arbitrary caller.                   *)
(***************************************************************************)
FacadeInit ==
    /\ sbx \in {"up", "down"}
    /\ file \in Files
    /\ variant \in Variants
    /\ nops = 0
    /\ LrInit
    /\ DrvIdle
    /\ BlIdle
    /\ UtIdle

Rows == {0, 1}
Cols == {0, 1}

Construct ==
    /\ pc = "idle" /\ bl.state = "idle" /\ upc = "idle"
    /\ \E ptr \in {NullPtr, LibDataAddr}, c1 \in BOOLEAN, c2 \in BOOLEAN :
          Ctor(ptr, c1, c2)
    /\ UNCHANGED <<file, variant, nops, drvvars, bl, utvars>>

CallOpenFile ==
    /\ pc = "idle" /\ bl.state = "idle" /\ upc = "idle"
    /\ nops < MaxOps
    /\ \E crash \in BOOLEAN : OpenFile(crash)
    /\ nops' = nops + 1
    /\ UNCHANGED <<file, variant, drvvars, bl, utvars>>

CallUnpack ==
    /\ pc = "idle" /\ bl.state = "idle" /\ upc = "idle"
    /\ nops < MaxOps
    /\ \E crash \in BOOLEAN : Unpack(crash)
    /\ nops' = nops + 1
    /\ UNCHANGED <<file, variant, drvvars, bl, utvars>>

CallCOLOR ==
    /\ pc = "idle" /\ bl.state = "idle" /\ upc = "idle"
    /\ nops < MaxOps
    /\ \E r \in Rows, k \in Cols, crash \in BOOLEAN : COLOR(r, k, crash)
    /\ nops' = nops + 1
    /\ UNCHANGED <<file, variant, drvvars, bl, utvars>>

CallRawData ==
    /\ pc = "idle" /\ bl.state = "idle" /\ upc = "idle"
    /\ nops < MaxOps
    /\ \E crash \in BOOLEAN : RawData(crash)
    /\ nops' = nops + 1
    /\ UNCHANGED <<file, variant, drvvars, bl, utvars>>

Destroy ==
    /\ pc = "idle" /\ bl.state = "idle" /\ upc = "idle"
    /\ \E crash \in BOOLEAN : Dtor(crash)
    /\ UNCHANGED <<file, variant, nops, drvvars, bl, utvars>>

\* the sandbox released while the facade made on it is still in use
SandboxOutlivesFacade_Not == life = "live"

\* The caller keeps the sandbox for as long as the facade made on it, as main
\* does: sandbox is declared before lr, so it is destroyed after it.
SandboxOutlivesFacade == life = "destroyed"

\* The caller releases the sandbox, which tears the context down.
ReleaseSandbox ==
    /\ pc = "idle" /\ bl.state = "idle" /\ upc = "idle"
    /\ sbx \in {"up", "down"}
    /\ SandboxOutlivesFacade
    /\ sbx' = "torn"
    /\ UNCHANGED <<file, variant, nops, lib, issued, life, init_status_,
                   sapi_libraw_data_t_, size_, color, ret, hist, drvvars, bl,
                   utvars>>

(***************************************************************************)
(* DriverSpec: one run of the example driver, main of main.cc.             *)
(***************************************************************************)
ColStarts == {-1, 0, 1}
RowStarts == {-1, 0, 1}
Channels == {-1, 0, 1, 3, 4}
WidthArgs == {0, 1}
HeightArgs == {0, 1, 2}

\* Command lines: ac arguments, av[2..6] as atoi reads them, 0 when absent.
ArgvSet ==
    { a \in [ac : 3..7, a2 : ColStarts, a3 : RowStarts, a4 : Channels,
             a5 : WidthArgs, a6 : HeightArgs] :
        /\ a.ac < 7 => a.a6 = 0
        /\ a.ac < 6 => a.a5 = 0
        /\ a.ac < 5 => a.a4 = 0
        /\ a.ac < 4 => (a.a3 = 0 /\ a.a2 = 0) }

DriverInit ==
    /\ sbx = "off"
    /\ file \in Files
    /\ variant = "example"
    /\ nops = 0
    /\ LrInit
    /\ argv \in ArgvSet
    /\ loc = NoLocals
    /\ pc = "start"
    /\ exit_code = <<>>
    /\ row = 0
    /\ c = 0
    /\ rcolors = <<>>
    /\ dumped = <<>>
    /\ run = NoRun
    /\ BlIdle
    /\ UtIdle

\* C's a % b for b > 0: the sign follows the dividend.
CRem(a, b) == IF a >= 0 THEN a % b ELSE 0 - ((0 - a) % b)

\* if (ac < 4)
TooFewArgs(ac) == ac < MinArgs

\* the test written with && for ||
BadArea_Both(width, height) == width < 1 /\ height < 1

\* if (width <1 || height<1)
BadArea(width, height) == width < 1 \/ height < 1

\* if ((colors == 1 && channel>0) || (channel >3))
BadChannel(colors, channel) ==
    (colors = 1 /\ channel > 0) \/ (channel > MaxChannel)

Exit(code, why) ==
    /\ pc' = "exit"
    /\ exit_code' = <<code>>
    /\ run' = [run EXCEPT !.why = why]

Go(to) == pc' = to /\ UNCHANGED <<exit_code, run>>

\* main, lines 158-176
ParseArgs ==
    /\ pc = "start"
    /\ IF TooFewArgs(argv.ac)
       THEN Exit(UsageExit, "args") /\ UNCHANGED loc
       ELSE LET l == [colstart |-> argv.a2,
                      rowstart |-> argv.a3,
                      channel |-> IF argv.ac > 4 THEN argv.a4 ELSE 0,
                      width |-> IF argv.ac > 5 THEN argv.a5 ELSE DefaultWidth,
                      height |-> IF argv.ac > 6 THEN argv.a6 ELSE DefaultHeight]
            IN  /\ loc' = l
                /\ IF BadArea(l.width, l.height)
                   THEN Exit(UsageExit, "area")
                   ELSE Go("sandbox")
    /\ UNCHANGED <<file, variant, nops, lrvars, argv, row, c, rcolors, dumped, bl, utvars>>

\* main, lines 178-183: sandbox.Init()
SandboxInit ==
    /\ pc = "sandbox"
    /\ \E ok \in BOOLEAN :
          IF ok
          THEN /\ sbx' = "up"
               /\ pc' = "construct"
               /\ run' = [run EXCEPT !.sandbox = "ok"]
               /\ UNCHANGED exit_code
          ELSE /\ sbx' = "down"
               /\ pc' = "exit"
               /\ exit_code' = <<EXIT_FAILURE>>
               /\ run' = [sandbox |-> "failed", why |-> "sandbox"]
    /\ UNCHANGED <<file, variant, nops, lib, issued, life, init_status_,
                   sapi_libraw_data_t_, size_, color, ret, hist, argv, loc, row,
                   c, rcolors, dumped, bl, utvars>>

\* main, line 184: LibRaw lr(&sandbox, av[1])
MainConstruct ==
    /\ pc = "construct"
    /\ \E ptr \in {NullPtr, LibDataAddr}, c1 \in BOOLEAN, c2 \in BOOLEAN :
          Ctor(ptr, c1, c2)
    /\ pc' = "open"
    /\ UNCHANGED <<file, variant, nops, argv, loc, exit_code, row, c, rcolors,
                   dumped, run, bl, utvars>>

\* main, lines 211-216
MainOpenFile ==
    /\ pc = "open"
    /\ \E crash \in BOOLEAN :
          /\ OpenFile(crash)
          /\ IF IsOk(ret'.status)
             THEN Go("channel")
             ELSE Exit(EXIT_FAILURE, "open")
    /\ UNCHANGED <<file, variant, nops, argv, loc, row, c, rcolors, dumped, bl, utvars>>

\* main, lines 235-239
CheckChannel ==
    /\ pc = "channel"
    /\ IF BadChannel(sapi_libraw_data_t_.data.colors, loc.channel)
       THEN Exit(UsageExit, "channel")
       ELSE Go("unpack")
    /\ UNCHANGED <<file, variant, nops, lrvars, argv, loc, row, c, rcolors,
                   dumped, bl, utvars>>

\* main, line 240: lr.Unpack(), its status dropped
MainUnpack ==
    /\ pc = "unpack"
    /\ \E crash \in BOOLEAN : Unpack(crash)
    /\ pc' = "layout"
    /\ UNCHANGED <<file, variant, nops, argv, loc, exit_code, row, c, rcolors,
                   dumped, run, bl, utvars>>

\* main, lines 249-256, 274, 284, 294-297: the header, then the layout chosen
\* from the image pointers of the local record
ChooseLayout ==
    /\ pc = "layout"
    /\ LET d == sapi_libraw_data_t_.data
       IN  IF d.raw_image # NullPtr
           THEN Go("rowA")
           ELSE IF d.color4_image # NullPtr /\ loc.channel < 4
           THEN Go("rowB")
           ELSE IF d.color3_image # NullPtr /\ loc.channel < 3
           THEN Go("rowC")
           ELSE Exit(EXIT_SUCCESS, "unsupported")
    /\ row' = loc.rowstart
    /\ UNCHANGED <<file, variant, nops, lrvars, argv, loc, c, rcolors, dumped, bl, utvars>>

\* row < rowstart + height && row < raw_height
RowInRange ==
    /\ row < loc.rowstart + loc.height
    /\ row < sapi_libraw_data_t_.data.raw_height

\* The columns one row of the dump visits.
RowCols ==
    { k \in loc.colstart .. (loc.colstart + loc.width - 1) :
        k < sapi_libraw_data_t_.data.raw_width }

\* main, lines 258-265: the head of the raw_image row loop
RowA ==
    /\ pc = "rowA"
    /\ IF ~RowInRange
       THEN Exit(EXIT_SUCCESS, "done") /\ UNCHANGED <<c, rcolors>>
       ELSE IF sapi_libraw_data_t_.data.colors > 1
       THEN /\ Go("colorA")
            /\ c' = 0
            /\ rcolors' = <<>>
       ELSE \* memset(rcolors, 0, sizeof(rcolors))
            /\ Go("printA")
            /\ rcolors' = [i \in 1..RColors |-> U32Of(0)]
            /\ UNCHANGED c
    /\ UNCHANGED <<file, variant, nops, lrvars, argv, loc, row, dumped, bl, utvars>>

\* main, lines 262-263: rcolors[c] = lr.COLOR(row, c)
ColorA ==
    /\ pc = "colorA"
    /\ IF c < RColors
       THEN /\ \E crash \in BOOLEAN :
                  /\ COLOR(row, c, crash)
                  /\ rcolors' = Append(rcolors, ToUnsigned(ret'.value[1]))
            /\ c' = c + 1
            /\ UNCHANGED pc
       ELSE /\ pc' = "printA"
            /\ UNCHANGED <<lrvars, c, rcolors>>
    /\ UNCHANGED <<file, variant, nops, argv, loc, exit_code, row, dumped, run, bl, utvars>>

\* One printed cell of a raw_image row: the pixel when the column's color is
\* the channel asked for, a dash otherwise.
CellA(col) ==
    IF rcolors[CRem(col, RColors) + 1] = ToUnsigned(loc.channel)
    THEN "px" ELSE "-"

\* Whether col % 48 is an index of rcolors.
InTable(col) == CRem(col, RColors) \in 0..(RColors - 1)

\* main, lines 266-271. A column whose col % 48 falls outside rcolors is
\* compared with whatever lies beside the table: its cell may be either.
PrintA ==
    /\ pc = "printA"
    /\ \E beside \in [{k \in RowCols : ~InTable(k)} -> {"px", "-"}] :
          dumped' = Append(dumped, [k \in RowCols |->
                                       IF InTable(k) THEN CellA(k) ELSE beside[k]])
    /\ row' = row + 1
    /\ pc' = "rowA"
    /\ UNCHANGED <<file, variant, nops, lrvars, argv, loc, exit_code, c, rcolors,
                   run, bl, utvars>>

\* main, lines 276-282 and 286-292: a row of color4_image or color3_image
RowBC ==
    /\ pc \in {"rowB", "rowC"}
    /\ IF ~RowInRange
       THEN Exit(EXIT_SUCCESS, "done") /\ UNCHANGED <<row, dumped>>
       ELSE /\ dumped' = Append(dumped, [k \in RowCols |-> "px"])
            /\ row' = row + 1
            /\ UNCHANGED <<pc, exit_code, run>>
    /\ UNCHANGED <<file, variant, nops, lrvars, argv, loc, c, rcolors, bl, utvars>>

\* main has ended: sandbox is destroyed as main returns (the process ends on
\* exit(1)), and the context is torn down with it
MainEnd ==
    /\ pc = "exit"
    /\ sbx \in {"up", "down"}
    /\ sbx' = "torn"
    /\ UNCHANGED <<file, variant, nops, lib, issued, life, init_status_,
                   sapi_libraw_data_t_, size_, color, ret, hist, drvvars, bl,
                   utvars>>

(***************************************************************************)
(* BlSpec: subtract_bl applied to one raw value and one black level.       *)
(***************************************************************************)
\* unsigned subtract_bl(unsigned int val, int bl), without its guard
subtract_bl_unguarded(val, b) == U32Sub(val, ToUnsigned(b))

\* unsigned subtract_bl(unsigned int val, int bl)
subtract_bl(val, b) ==
    IF U32Gt(val, ToUnsigned(b)) THEN U32Sub(val, ToUnsigned(b)) ELSE U32Of(0)

\* Raw values: 0, 1, 2, 5, 0xFFFF, 0x10000, 0x7FFFFFFF, 0x80000000,
\* 0xFFFFFFFE, 0xFFFFFFFF.
ValSamples ==
    { U32Of(n) : n \in {0, 1, 2, 5, 65535, 65536, 2147483647} }
    \cup { [hi |-> 32768, lo |-> 0], [hi |-> 65535, lo |-> 65534],
           [hi |-> 65535, lo |-> 65535] }

BlSamples == {0, 1, 2, 5, 65535, 2147483647, -1, -2, -65536, -2147483647}

BlInit ==
    /\ sbx = "off"
    /\ file \in BadOpenFiles
    /\ variant = "example"
    /\ nops = 0
    /\ LrInit
    /\ DrvIdle
    /\ \E v \in ValSamples, b \in BlSamples :
          bl = [state |-> "in", val |-> v, bl |-> b, res |-> U32Of(0)]
    /\ UtIdle

CallSubtractBl ==
    /\ bl.state = "in"
    /\ bl' = [bl EXCEPT !.state = "out", !.res = subtract_bl(bl.val, bl.bl)]
    /\ UNCHANGED <<file, variant, nops, lrvars, drvvars, utvars>>

(***************************************************************************)
(* One uriparser test: the fixture's SetUp, one TEST_P body on one row of  *)
(* TestData, the destruction of the body's locals, the fixture's end.      *)
(***************************************************************************)
Tests ==
    {"TestUri", "TestHostText", "TestHostIP", "TestAddBaseExample",
     "TestRemoveBaseExample", "TestPath", "TestQueryElements"}

URI_SUCCESS == 0

\* The return code of uriParseUriA on the text of row r.
LibParseCode(r) == URI_SUCCESS

\* The remote address Allocate gives the record of handle h.
UriAddr(h) == "mem:" \o h

\* One remote interaction, as logged: its name, the handle it is about, and
\* the state of the context when it was issued.
Log(name, on) == Append(calls, [name |-> name, on |-> on, ctx |-> sbx])

UriInit ==
    /\ sbx = "off"
    /\ file \in BadOpenFiles
    /\ variant = "example"
    /\ nops = 0
    /\ LrInit
    /\ DrvIdle
    /\ BlIdle
    /\ \E i \in 1..Len(TestData) : tv = TestData[i]
    /\ test \in Tests
    /\ upc = "setup"
    /\ uris = [h \in UriNames |-> NoUri]
    /\ mem = [h \in UriNames |-> NoMem]
    /\ scope = <<>>
    /\ calls = <<>>
    /\ walk = NoWalk
    /\ seen = NoSeen
    /\ fatal = FALSE

\* UriParserBase::SetUp: a fatal failure here skips the test body
SetUp ==
    /\ upc = "setup"
    /\ \E ok \in BOOLEAN :
          IF ok
          THEN sbx' = "up" /\ upc' = "parse" /\ UNCHANGED fatal
          ELSE sbx' = "down" /\ upc' = "teardown" /\ fatal' = TRUE
    /\ UNCHANGED <<file, variant, nops, lib, issued, life, init_status_,
                   sapi_libraw_data_t_, size_, color, ret, hist, drvvars, bl,
                   tv, test, uris, mem, scope, calls, walk, seen>>

\* The steps of ParseUri at which it can end: "ok" when every step went
\* through, otherwise the step that failed. A context that is not up fails
\* the first step.
ParseEnds == {"ok", "allocate", "parse", "code", "transfer"}

\* UriParserBase::ParseUri on handle h for the text of row r, ending at k.
\* Every ASSERT of the helper returns from the helper only.
ParseUri(h, r, k) ==
    /\ k \in ParseEnds
    /\ sbx # "up" => k = "allocate"
    /\ k = "code" => LibParseCode(r) # URI_SUCCESS
    /\ k \in {"ok", "transfer"} => LibParseCode(r) = URI_SUCCESS
    /\ LET c1 == Log("Allocate", h)
           c2 == Append(c1, [name |-> "uriParseUriA", on |-> h, ctx |-> sbx])
           c3 == Append(c2, [name |-> "TransferFromSandboxee", on |-> h,
                             ctx |-> sbx])
       IN  calls' = IF k = "allocate" THEN c1
                    ELSE IF k \in {"parse", "code"} THEN c2
                    ELSE c3
    /\ uris' = [uris EXCEPT
                  ![h] = [remote |-> IF k = "allocate" THEN NullPtr
                                     ELSE UriAddr(h),
                          data |-> IF k = "ok" THEN LibParseUri(r)
                                   ELSE BlankUri,
                          parse |-> k]]
    /\ mem' = [mem EXCEPT
                 ![h] = [record |-> IF k = "allocate" THEN "none"
                                    ELSE "allocated",
                         members |-> IF k \in {"ok", "transfer"} THEN "owned"
                                     ELSE "none",
                         auto |-> k # "allocate"]]
    /\ sbx' = IF k \in {"ok", "code"} THEN sbx ELSE "down"
    /\ fatal' = (fatal \/ k # "ok")

\* Where a test body goes on after its first ParseUri.
AfterParse ==
    [n \in Tests |->
        CASE n = "TestUri" -> "tostring"
          [] n = "TestHostText" -> "hosttext"
          [] n = "TestHostIP" -> "hostip"
          [] n = "TestPath" -> "path"
          [] n = "TestQueryElements" -> "query"
          [] OTHER -> "base"]

\* The head of every test body: uri, ParseUri(c_uri, state, &uri), uri_cleanup
TestParse ==
    /\ upc = "parse"
    /\ \E k \in ParseEnds : ParseUri("uri", tv, k)
    /\ scope' = scope \o <<"uri", "uri_cleanup">>
    /\ upc' = AfterParse[test]
    /\ UNCHANGED <<file, variant, nops, lib, issued, life, init_status_,
                   sapi_libraw_data_t_, size_, color, ret, hist, drvvars, bl,
                   tv, test, walk, seen>>

\* The handle whose text a test body asks for.
Subject == IF test = "TestUri" THEN "uri" ELSE "newuri"

\* GetUriString, and the same two calls in the add-base and remove-base
\* bodies: uriToStringCharsRequiredA, then uriToStringA
GetUriString ==
    /\ upc = "tostring"
    /\ \E crash1 \in BOOLEAN, crash2 \in BOOLEAN :
          LET c1 == Log("uriToStringCharsRequiredA", Subject)
              c2 == Append(c1, [name |-> "uriToStringA", on |-> Subject,
                                ctx |-> sbx])
          IN  IF ~Reaches(crash1)
              THEN calls' = c1 /\ sbx' = SbxAfter(crash1) /\ fatal' = TRUE
              ELSE /\ calls' = c2
                   /\ sbx' = SbxAfter(crash2)
                   /\ fatal' = (fatal \/ crash2)
    /\ upc' = "unwind"
    /\ UNCHANGED <<file, variant, nops, lib, issued, life, init_status_,
                   sapi_libraw_data_t_, size_, color, ret, hist, drvvars, bl,
                   tv, test, uris, mem, scope, walk, seen>>

\* TestHostText after ParseUri
HostText ==
    /\ upc = "hosttext"
    /\ IF uris["uri"].data.hostText # ""
       THEN \E crash \in BOOLEAN :
               /\ calls' = Log("GetCString", "uri")
               /\ sbx' = SbxAfter(crash)
               /\ IF Reaches(crash)
                  THEN /\ seen' = [seen EXCEPT
                                     !.hosttext = <<uris["uri"].data.hostText>>]
                       /\ fatal' = (fatal \/ uris["uri"].data.hostText # tv.hosttext)
                  ELSE fatal' = TRUE /\ UNCHANGED seen
       ELSE /\ seen' = [seen EXCEPT !.hosttext = <<"">>]
            /\ fatal' = (fatal \/ tv.hosttext # "")
            /\ UNCHANGED <<calls, sbx>>
    /\ upc' = "unwind"
    /\ UNCHANGED <<file, variant, nops, lib, issued, life, init_status_,
                   sapi_libraw_data_t_, size_, color, ret, hist, drvvars, bl,
                   tv, test, uris, mem, scope, walk>>

\* TestHostIP after ParseUri
HostIP ==
    /\ upc = "hostip"
    /\ LET d == uris["uri"].data
           kind == IF d.ip4 # <<>> THEN "ip4"
                   ELSE IF d.ip6 # <<>> THEN "ip6" ELSE "none"
           ipstr == IF kind = "ip4" THEN inet_ntop4(d.ip4)
                    ELSE inet_ntop6(d.ip6)
       IN  IF kind = "none"
           THEN /\ seen' = [seen EXCEPT !.ipstr = <<"">>]
                /\ fatal' = (fatal \/ tv.hostip # "")
                /\ UNCHANGED <<calls, sbx>>
           ELSE \E crash \in BOOLEAN :
                   /\ calls' = Log("TransferFromSandboxee", kind)
                   /\ sbx' = SbxAfter(crash)
                   /\ IF Reaches(crash)
                      THEN /\ seen' = [seen EXCEPT !.ipstr = <<ipstr>>]
                           /\ fatal' = (fatal \/ ipstr # tv.hostip)
                      ELSE fatal' = TRUE /\ UNCHANGED seen
    /\ upc' = "unwind"
    /\ UNCHANGED <<file, variant, nops, lib, issued, life, init_status_,
                   sapi_libraw_data_t_, size_, color, ret, hist, drvvars, bl,
                   tv, test, uris, mem, scope, walk>>

\* The add-base and remove-base bodies: base_uri, ParseUri(c_base_uri,
\* base_state, &base_uri), base_uri_cleanup
BaseParse ==
    /\ upc = "base"
    /\ \E k \in ParseEnds : ParseUri("base_uri", BaseRow, k)
    /\ scope' = scope \o <<"base_uri", "base_uri_cleanup">>
    /\ upc' = "combine"
    /\ UNCHANGED <<file, variant, nops, lib, issued, life, init_status_,
                   sapi_libraw_data_t_, size_, color, ret, hist, drvvars, bl,
                   tv, test, walk, seen>>

\* The record uriAddBaseUriA or uriRemoveBaseUriA fills in for row r; the
\* bodies read none of its fields.
LibCombine(r) == LibParseUri(r)

\* The call that makes newuri of uri and base_uri.
CombineCall ==
    IF test = "TestAddBaseExample" THEN "uriAddBaseUriA"
    ELSE "uriRemoveBaseUriA"

\* newuri, then uriAddBaseUriA or uriRemoveBaseUriA(newuri.PtrAfter(),
\* uri.PtrNone(), base_uri.PtrBefore()), then newuri_cleanup. newuri has no
\* remote address, so the call allocates its record first; a failed call ends
\* the body before newuri_cleanup exists.
Combine ==
    /\ upc = "combine"
    /\ \E crash1 \in BOOLEAN, crash2 \in BOOLEAN :
          LET c1 == Log("Allocate", "newuri")
              c2 == Append(c1, [name |-> CombineCall, on |-> "newuri",
                                ctx |-> sbx])
          IN  IF ~Reaches(crash1)
              THEN /\ calls' = c1
                   /\ sbx' = SbxAfter(crash1)
                   /\ fatal' = TRUE
                   /\ scope' = Append(scope, "newuri")
                   /\ upc' = "unwind"
                   /\ UNCHANGED <<uris, mem>>
              ELSE /\ calls' = c2
                   /\ sbx' = SbxAfter(crash2)
                   /\ uris' = [uris EXCEPT
                                 !["newuri"].remote = UriAddr("newuri"),
                                 !["newuri"].data =
                                     IF crash2 THEN BlankUri ELSE LibCombine(tv)]
                   /\ mem' = [mem EXCEPT
                                !["newuri"] =
                                    [record |-> "allocated",
                                     members |-> IF crash2 THEN "none"
                                                 ELSE "owned",
                                     auto |-> TRUE]]
                   /\ IF crash2
                      THEN /\ fatal' = TRUE
                           /\ scope' = Append(scope, "newuri")
                           /\ upc' = "unwind"
                      ELSE /\ UNCHANGED fatal
                           /\ scope' = scope \o <<"newuri", "newuri_cleanup">>
                           /\ upc' = "tostring"
    /\ UNCHANGED <<file, variant, nops, lib, issued, life, init_status_,
                   sapi_libraw_data_t_, size_, color, ret, hist, drvvars, bl,
                   tv, test, walk, seen>>

\* TestPath, lines 778-782: path_segment.SetRemote(pathHead)
PathStart ==
    /\ upc = "path"
    /\ LET pathHead == uris["uri"].data.pathHead
       IN  IF pathHead # NullPtr
           THEN /\ walk' = [kind |-> "seg", list |-> LibPath(tv),
                            remote |-> pathHead, done |-> <<>>, i |-> 0,
                            count |-> 0, ended |-> "no"]
                /\ upc' = "pathwalk"
           ELSE /\ upc' = "unwind"
                /\ UNCHANGED walk
    /\ UNCHANGED <<file, variant, nops, lrvars, drvvars, bl, tv, test, uris,
                   mem, scope, calls, seen, fatal>>

\* TestPath, lines 783-799: the loop test and one turn of the loop
PathStep ==
    /\ upc = "pathwalk"
    /\ IF walk.remote = NullPtr
       THEN /\ walk' = [walk EXCEPT !.ended = "null"]
            /\ upc' = "unwind"
            /\ UNCHANGED <<calls, sbx, fatal>>
       ELSE \E crash1 \in BOOLEAN, crash2 \in BOOLEAN :
               LET n == NodeOf(walk.kind, walk.list, walk.remote)
                   c1 == Log("TransferFromSandboxee", walk.remote)
                   c2 == Append(c1, [name |-> "GetCString", on |-> walk.remote,
                                     ctx |-> sbx])
               IN  IF ~Reaches(crash1)
                   THEN /\ calls' = c1
                        /\ sbx' = SbxAfter(crash1)
                        /\ walk' = [walk EXCEPT !.ended = "failed"]
                        /\ fatal' = TRUE
                        /\ upc' = "unwind"
                   ELSE /\ calls' = c2
                        /\ sbx' = SbxAfter(crash2)
                        /\ IF crash2
                           THEN /\ walk' = [walk EXCEPT
                                              !.done = Append(@, n),
                                              !.ended = "failed"]
                                /\ fatal' = TRUE
                                /\ upc' = "unwind"
                           ELSE /\ walk' = [walk EXCEPT
                                              !.done = Append(@, n),
                                              !.remote = NextAddr(walk.kind,
                                                                  walk.list, n)]
                                /\ UNCHANGED <<fatal, upc>>
    /\ UNCHANGED <<file, variant, nops, lib, issued, life, init_status_,
                   sapi_libraw_data_t_, size_, color, ret, hist, drvvars, bl,
                   tv, test, uris, mem, scope, seen>>

\* TestQueryElements, lines 822-843: uriDissectQueryMallocA, then
\* query_list_cleanup and obj.SetRemote(query_ptr[0])
QueryStart ==
    /\ upc = "query"
    /\ IF uris["uri"].data.query = NullPtr
       THEN /\ upc' = "unwind"
            /\ UNCHANGED <<calls, sbx, fatal, scope, walk>>
       ELSE \E crash \in BOOLEAN :
               /\ calls' = Log("uriDissectQueryMallocA", "uri")
               /\ sbx' = SbxAfter(crash)
               /\ IF Reaches(crash)
                  THEN /\ scope' = Append(scope, "query_list_cleanup")
                       /\ walk' = [kind |-> "q", list |-> tv.query_elements,
                                   remote |-> NodeAddr("q", 1), done |-> <<>>,
                                   i |-> 0, count |-> Len(tv.query_elements),
                                   ended |-> "no"]
                       /\ upc' = "querywalk"
                       /\ UNCHANGED fatal
                  ELSE /\ fatal' = TRUE
                       /\ upc' = "unwind"
                       /\ UNCHANGED <<scope, walk>>
    /\ UNCHANGED <<file, variant, nops, lib, issued, life, init_status_,
                   sapi_libraw_data_t_, size_, color, ret, hist, drvvars, bl,
                   tv, test, uris, mem, seen>>

\* TestQueryElements, lines 845-864: the loop test and one turn of the loop
QueryStep ==
    /\ upc = "querywalk"
    /\ IF walk.i >= walk.count
       THEN /\ walk' = [walk EXCEPT !.ended = "count"]
            /\ upc' = "unwind"
            /\ UNCHANGED <<calls, sbx, fatal>>
       ELSE \E crash1 \in BOOLEAN, crash2 \in BOOLEAN :
               LET n == NodeOf(walk.kind, walk.list, walk.remote)
                   c1 == Log("TransferFromSandboxee", walk.remote)
                   c2 == Append(c1, [name |-> "GetCString", on |-> walk.remote,
                                     ctx |-> sbx])
               IN  IF walk.remote = NullPtr \/ ~Reaches(crash1)
                   THEN /\ calls' = c1
                        /\ sbx' = IF walk.remote = NullPtr THEN sbx
                                  ELSE SbxAfter(crash1)
                        /\ walk' = [walk EXCEPT !.ended = "failed"]
                        /\ fatal' = TRUE
                        /\ upc' = "unwind"
                   ELSE /\ calls' = c2
                        /\ sbx' = SbxAfter(crash2)
                        /\ IF crash2
                           THEN /\ walk' = [walk EXCEPT
                                              !.done = Append(@, n),
                                              !.remote = NullPtr,
                                              !.ended = "failed"]
                                /\ fatal' = TRUE
                                /\ upc' = "unwind"
                           ELSE /\ walk' = [walk EXCEPT
                                              !.done = Append(@, n),
                                              !.remote = NextAddr(walk.kind,
                                                                  walk.list, n),
                                              !.i = @ + 1]
                                /\ UNCHANGED <<fatal, upc>>
    /\ UNCHANGED <<file, variant, nops, lib, issued, life, init_status_,
                   sapi_libraw_data_t_, size_, color, ret, hist, drvvars, bl,
                   tv, test, uris, mem, scope, seen>>

\* The handle a cleanup of the body frees the members of.
CleanupOf ==
    [s \in {"uri_cleanup", "base_uri_cleanup", "newuri_cleanup"} |->
        CASE s = "uri_cleanup" -> "uri"
          [] s = "base_uri_cleanup" -> "base_uri"
          [] OTHER -> "newuri"]

\* the local declared first
Top_FirstDeclared(s) == s[1]

\* The local destroyed next: the one declared last of those still alive.
Top(s) == s[Len(s)]

\* The end of the body: its locals are destroyed, the last declared first.
\* A cleanup calls uriFreeUriMembersA (uriFreeQueryListA for the query
\* list); a record handle frees the remote memory that was allocated for it.
Unwind ==
    /\ upc = "unwind"
    /\ IF scope = <<>>
       THEN /\ upc' = "teardown"
            /\ UNCHANGED <<scope, calls, sbx, mem>>
       ELSE LET top == Top(scope)
            IN  /\ scope' = SubSeq(scope, 1, Len(scope) - 1)
                /\ UNCHANGED upc
                /\ \E crash \in BOOLEAN :
                      IF top = "query_list_cleanup"
                      THEN /\ calls' = Log("uriFreeQueryListA", "query")
                           /\ sbx' = SbxAfter(crash)
                           /\ UNCHANGED mem
                      ELSE IF top \in DOMAIN CleanupOf
                      THEN /\ calls' = Log("uriFreeUriMembersA", CleanupOf[top])
                           /\ sbx' = SbxAfter(crash)
                           /\ mem' = IF /\ Reaches(crash)
                                        /\ mem[CleanupOf[top]].members = "owned"
                                     THEN [mem EXCEPT
                                             ![CleanupOf[top]].members = "freed"]
                                     ELSE mem
                      ELSE IF mem[top].auto
                      THEN /\ calls' = Log("Free", top)
                           /\ sbx' = SbxAfter(crash)
                           /\ mem' = IF Reaches(crash)
                                     THEN [mem EXCEPT ![top].record = "freed"]
                                     ELSE mem
                      ELSE UNCHANGED <<calls, sbx, mem>>
    /\ UNCHANGED <<file, variant, nops, lib, issued, life, init_status_,
                   sapi_libraw_data_t_, size_, color, ret, hist, drvvars, bl,
                   tv, test, uris, walk, seen, fatal>>

\* The fixture is destroyed: api_, then sandbox_, and the context with it
TearDown ==
    /\ upc = "teardown"
    /\ sbx' = "torn"
    /\ upc' = "done"
    /\ UNCHANGED <<file, variant, nops, lib, issued, life, init_status_,
                   sapi_libraw_data_t_, size_, color, ret, hist, drvvars, bl,
                   tv, test, uris, mem, scope, calls, walk, seen, fatal>>

(***************************************************************************)
(* Spec: a facade session with an arbitrary caller, a run of the driver,   *)
(* or an application of subtract_bl.                                       *)
(***************************************************************************)
Init == FacadeInit \/ DriverInit \/ BlInit \/ UriInit

Next ==
    \/ Construct
    \/ CallOpenFile
    \/ CallUnpack
    \/ CallCOLOR
    \/ CallRawData
    \/ Destroy
    \/ ReleaseSandbox
    \/ ParseArgs
    \/ SandboxInit
    \/ MainConstruct
    \/ MainOpenFile
    \/ CheckChannel
    \/ MainUnpack
    \/ ChooseLayout
    \/ RowA
    \/ ColorA
    \/ PrintA
    \/ RowBC
    \/ MainEnd
    \/ CallSubtractBl
    \/ SetUp
    \/ TestParse
    \/ GetUriString
    \/ HostText
    \/ HostIP
    \/ BaseParse
    \/ Combine
    \/ PathStart
    \/ PathStep
    \/ QueryStart
    \/ QueryStep
    \/ Unwind
    \/ TearDown

Spec == Init /\ [][Next]_vars

(***************************************************************************)
(* Properties.                                                             *)
(***************************************************************************)
NothingIssued == \A n \in CallNames : issued[n] = 0

\* C1: once the driver has ended, a libraw_init that succeeded has been
\* followed by exactly one libraw_close.
C1_InitMatchedByClose ==
    (pc = "exit" /\ hist.inited) => issued["libraw_close"] = 1

\* C2: when the remote call of OpenFile or Unpack completes with a non-zero
\* library code the operation returns a failure, and it returns success only
\* when the call completed with code zero.
C2_NonZeroCodeIsFailure ==
    ret.op \in {"OpenFile", "Unpack"} =>
        /\ (ret.call.ok /\ ret.call.code # 0) => ~IsOk(ret.status)
        /\ IsOk(ret.status) => (ret.call.ok /\ ret.call.code = 0)

C2_Witness ==
    /\ ret.op = "Unpack"
    /\ ret.call.ok
    /\ ret.call.code = file.unpackCode
    /\ file.unpackCode # 0
    /\ ~IsOk(ret.status)

\* C3: on a session whose initialization failed (the context was not up, the
\* libraw_init call failed or returned no record, or the first transfer of
\* the record failed) every OpenFile, Unpack, COLOR and RawData returns a
\* failure without a remote call, no later operation issues a remote call,
\* and a driver whose sandbox did not start has ended with EXIT_FAILURE
\* before constructing the facade or issuing anything.
C3_FailedInitState ==
    /\ (/\ life = "live"
        /\ hist.init \notin {"none", "ok"}
        /\ ret.op # "none"
        /\ (variant = "utils" \/ ret.op \in {"OpenFile", "Unpack"}))
       => (~IsOk(ret.status) /\ ~ret.call.made)
    /\ run.sandbox = "failed"
       => (/\ pc = "exit"
           /\ exit_code = <<EXIT_FAILURE>>
           /\ life = "none"
           /\ NothingIssued)

C3_FailedInitStep ==
    (life = "live" /\ life' = "live" /\ hist.init # "ok") => issued' = issued

C4_SubtractBlSigned ==
    bl.state = "out" =>
        IF bl.bl >= 0 /\ ~U32Gt(bl.val, U32Of(bl.bl))
        THEN bl.res = U32Of(0)
        ELSE IF bl.bl >= 0
        THEN U32Add(bl.res, U32Of(bl.bl)) = [sum |-> bl.val, carry |-> FALSE]
        ELSE U32Add(bl.val, U32Of(0 - bl.bl)) = [sum |-> bl.res, carry |-> FALSE]

\* C4 (amended): with B the black level as an unsigned number (bl itself when
\* bl >= 0, bl + 2^32 when bl < 0), the result is 0 when val <= B, and
\* otherwise the number val - B: adding B back gives val without passing 2^32.
C4_SubtractBlUnsigned ==
    bl.state = "out" =>
        LET B == IF bl.bl >= 0 THEN U32Of(bl.bl) ELSE U32Neg(U32Of(0 - bl.bl))
        IN  IF ~U32Gt(bl.val, B)
            THEN bl.res = U32Of(0)
            ELSE U32Add(bl.res, B) = [sum |-> bl.val, carry |-> FALSE]

C4_Witness ==
    /\ bl.state = "out"
    /\ bl.bl = 5
    /\ bl.val = U32Of(5)
    /\ bl.res = U32Of(0)

\* C5: the driver issues Unpack or a color lookup, or dumps a row, only for a
\* channel selector in 0..3 that is 0 when the opened file has one color.
C5_OnlyValidChannelProceeds ==
    (/\ pc # "idle"
     /\ \/ issued["libraw_unpack"] > 0
        \/ issued["libraw_COLOR"] > 0
        \/ dumped # <<>>)
    => (/\ loc.channel \in 0..MaxChannel
        /\ sapi_libraw_data_t_.data.colors = 1 => loc.channel = 0)

\* C6 (as stated): a run ended by a validation failure has issued no remote
\* call.
C6_ValidationBeforeAnyCall ==
    run.why \in {"args", "area", "channel"} => NothingIssued

\* C6 (amended): too few arguments and a width or height below 1 end the run
\* with status 1 before the sandbox is started or anything is issued; a
\* channel above 3, or above 0 on a one-color file, ends the run with status 1
\* after libraw_init, the record transfer and libraw_open_file were issued
\* and before Unpack or any color lookup.
C6_ValidationOrder ==
    /\ (/\ pc \notin {"idle", "start"}
        /\ (argv.ac < 4 \/ loc.width < 1 \/ loc.height < 1))
       => (/\ pc = "exit"
           /\ run.why \in {"args", "area"}
           /\ exit_code = <<1>>
           /\ sbx = "off"
           /\ NothingIssued)
    /\ (/\ pc \notin {"idle", "start", "sandbox", "construct", "open", "channel"}
        /\ run.why \notin {"args", "area", "sandbox", "open"}
        /\ \/ loc.channel > 3
           \/ (sapi_libraw_data_t_.data.colors = 1 /\ loc.channel > 0))
       => run.why = "channel"
    /\ run.why = "channel"
       => (/\ exit_code = <<1>>
           /\ issued = [n \in CallNames |->
                          IF n \in {"libraw_init", "TransferFromSandboxee",
                                    "libraw_open_file"} THEN 1 ELSE 0])

C6_Witness ==
    /\ run.why = "channel"
    /\ loc.channel = 4
    /\ issued["libraw_open_file"] = 1

\* C7: a run in which OpenFile or Unpack failed has ended with a status other
\* than EXIT_SUCCESS and has dumped no pixel row.
C7_FailureEndsRun ==
    (pc = "exit" /\ (hist.openFailed \/ hist.unpackFailed))
    => (exit_code # <<EXIT_SUCCESS>> /\ dumped = <<>>)

\* C8: when the remote call of a color lookup fails, the caller receives a
\* failure and no channel index.
C8_ColorFailureSurfaced ==
    (ret.op = "COLOR" /\ ret.call.made /\ ~ret.call.ok)
    => (ret.kind = "statusor" /\ ~IsOk(ret.status) /\ ret.value = <<>>)

\* C9: the failure OpenFile or Unpack returns for a non-zero library code
\* carries that code.
C9_CodePreserved ==
    (ret.op \in {"OpenFile", "Unpack"} /\ ret.call.ok /\ ret.call.code # 0)
    => ret.status.msg = to_string(ret.call.code)

\* C10 (as stated): Unpack, COLOR and RawData reach the library only on a
\* session whose OpenFile has succeeded.
C10_OnlyAfterOpen ==
    ~hist.unpackNoOpen /\ ~hist.colorNoOpen /\ ~hist.rawNoOpen

\* C10 (amended): a facade operation issues a remote call only on a live
\* session whose initialization succeeded, whether or not OpenFile has
\* succeeded on it; nothing is issued once the session is destroyed, and
\* libraw_close is issued only by the step that destroys it.
C10_OnlyAfterInit ==
    [][/\ (life = "live" /\ life' = "live" /\ issued' # issued)
          => hist.init = "ok"
       /\ life = "destroyed" => issued' = issued
       /\ issued'["libraw_close"] # issued["libraw_close"]
          => (life = "live" /\ life' = "destroyed")]_vars

C10_Witness ==
    /\ hist.unpackNoOpen
    /\ ret.op = "Unpack"
    /\ ret.call.ok
    /\ ret.call.code = LIBRAW_OUT_OF_ORDER_CALL

\* The non-zero codes the wrapped library returns in the model.
FailureCodes ==
    ({ f.openCode : f \in Files } \cup { f.unpackCode : f \in Files }
     \cup {LIBRAW_OUT_OF_ORDER_CALL}) \ {LIBRAW_SUCCESS}

\* C11: when the remote call of a facade operation fails at the transport,
\* the caller receives a failure, and one that differs from every failure the
\* operations make of a library code.
C11_FailuresDistinguishable ==
    (ret.call.made /\ ~ret.call.ok) =>
        /\ ret.kind # "int"
        /\ ~IsOk(ret.status)
        /\ \A code \in FailureCodes :
              /\ ret.status # UnavailableError(OpenFileMessage(code))
              /\ ret.status # UnavailableError(UnpackMessage(code))

\* The payloads of a parsed record that are populated.
Populated(d) ==
    {p \in {"hostText", "ip4", "ip6"} :
        \/ (p = "hostText" /\ d.hostText # "")
        \/ (p = "ip4" /\ d.ip4 # <<>>)
        \/ (p = "ip6" /\ d.ip6 # <<>>)}

C13_SyncOnlyOnBound ==
    /\ hist.init # "null"
    /\ ~(ret.op = "RawData" /\ ret.call.made /\ ret.status = NullRemoteError)
    /\ \A i \in DOMAIN calls :
          /\ calls[i].name = "TransferFromSandboxee" => calls[i].on # NullPtr
          /\ (calls[i].on \in UriNames /\ calls[i].name # "Allocate")
             => uris[calls[i].on].remote # NullPtr

NodeTransfers ==
    {i \in DOMAIN calls :
        /\ calls[i].name = "TransferFromSandboxee"
        /\ NodeOf(walk.kind, walk.list, calls[i].on) # 0}

C16_IndicesInBounds ==
    LET d == sapi_libraw_data_t_.data
    IN  /\ pc \in {"colorA", "printA"} => row \in 0..(d.raw_height - 1)
        /\ \A i \in DOMAIN dumped : \A k \in DOMAIN dumped[i] :
               /\ k \in 0..(d.raw_width - 1)
               /\ InTable(k)

\* C17: the driver prints a pixel only after a transfer has copied pixel data
\* out of the context, that is a transfer besides the one of the library
\* record that InitLibRaw makes.
C17_PixelsByTransfer ==
    (/\ pc # "idle"
     /\ \E i \in DOMAIN dumped : \E k \in DOMAIN dumped[i] :
            dumped[i][k] = "px")
    => issued["TransferFromSandboxee"] > 1

\* C18: uriFreeUriMembersA is issued only for a URI whose ParseUri went
\* through (for newuri, whose add-base or remove-base call succeeded).
C18_FreeOnlyAfterParse ==
    \A i \in DOMAIN calls :
        calls[i].name = "uriFreeUriMembersA" =>
            IF calls[i].on = "newuri"
            THEN mem["newuri"].members # "none"
            ELSE uris[calls[i].on].parse = "ok"

\* The place of a release call in the order result, base, source, members
\* before memory; 0 for a call that releases nothing.
ReleaseRank(call) ==
    LET h == IF call.on = "newuri" THEN 0
             ELSE IF call.on = "base_uri" THEN 2
             ELSE IF call.on = "uri" THEN 4 ELSE -8
    IN  IF call.name = "uriFreeUriMembersA" THEN h + 1
        ELSE IF call.name = "Free" THEN h + 2
        ELSE 0

Releases == {i \in DOMAIN calls : ReleaseRank(calls[i]) > 0}

\* C19: in the add-base and remove-base bodies the release calls come in the
\* order result, base, source, the members of each URI freed before the
\* memory of its record, each release made once; this holds of the releases
\* made after a failure partway too, and when the body has ended every record
\* that was allocated and every URI a cleanup was made for has had its
\* release issued.
C19_ReverseReleaseOrder ==
    test \in {"TestAddBaseExample", "TestRemoveBaseExample"} =>
        /\ \A i \in Releases : \A j \in Releases :
               i < j => ReleaseRank(calls[i]) < ReleaseRank(calls[j])
        /\ upc \in {"teardown", "done"} =>
               \A h \in UriNames :
                   /\ mem[h].auto =>
                          \E i \in Releases :
                              calls[i].name = "Free" /\ calls[i].on = h
                   /\ mem[h].members # "none" =>
                          \E i \in Releases :
                              /\ calls[i].name = "uriFreeUriMembersA"
                              /\ calls[i].on = h

C19_Witness ==
    /\ test = "TestAddBaseExample"
    /\ upc = "done"
    /\ Cardinality(Releases) = 6
    /\ \A i \in Releases : calls[i].ctx = "up"
    /\ \A h \in UriNames :
          mem[h].members = "freed" /\ mem[h].record = "freed"

\* C20: on a live session whose initialization succeeded and whose context
\* is up (every remote call so far completed) the local copy of the library
\* record equals the record in remote memory.
C20_LocalEqualsRemoteState ==
    (life = "live" /\ hist.init = "ok" /\ sbx = "up")
    => sapi_libraw_data_t_.data = lib.data

\* A completed color lookup, before-call transfer included, leaves the
\* library's record as it was; a completed Unpack changes it only as
\* libraw_unpack does on the record the library held.
C20_BeforeTransferStep ==
    (ret' # ret /\ ret'.call.ok) =>
        /\ ret'.op = "COLOR" => lib' = lib
        /\ ret'.op = "Unpack" => lib'.data = LibUnpack(lib.data).data

C20_LocalEqualsRemote ==
    [](C20_LocalEqualsRemoteState) /\ [][C20_BeforeTransferStep]_vars

C20_Witness ==
    /\ variant = "utils"
    /\ life = "live"
    /\ sbx = "up"
    /\ ret.op = "COLOR"
    /\ ret.call.ok
    /\ lib.data.progress = "unpacked"
    /\ sapi_libraw_data_t_.data = lib.data

(***************************************************************************)
(* C21: RawData returns a buffer whose element count is the mathematical   *)
(* product raw_height x raw_width recorded by the most recent successful   *)
(* OpenFile, for all 16-bit raw_height and raw_width, the product neither  *)
(* wrapping nor overflowing; a failed OpenFile leaves the count unchanged. *)
(* Once a file is open the recorded count is the product of its           *)
(* dimensions, RawData does not throw, and a successful RawData returns    *)
(* that many elements.                                                     *)
(***************************************************************************)
C21_CountIsProduct ==
    (variant = "utils" /\ hist.opened) =>
        LET n == Product(file.raw_height, file.raw_width)
        IN  /\ size_ = n
            /\ ret.op = "RawData" => ret.kind # "thrown"
            /\ (ret.op = "RawData" /\ ret.kind = "statusor" /\ IsOk(ret.status))
                   => ret.value = <<n>>

====
